---- MODULE Spec2Model ----
(***************************************************************************)
(* The per-guild audio player of the music bot: music_bot/audio_player.py  *)
(* (AudioPlayer), music_bot/song.py (SongQueue) and the commands of        *)
(* music_bot/music_cog.py that drive one AudioPlayer.                      *)
(*                                                                         *)
(* Three flows of control touch one AudioPlayer:                           *)
(*   - the event loop's tasks: the control loop play_audio, the command    *)
(*     handlers, the record_song_play_to_db coroutines;                    *)
(*   - the voice client's player thread, which calls play_next_song (the   *)
(*     "after" callback) when a song ends, is stopped or fails;            *)
(*   - the environment: users issuing commands, songs ending, sends and    *)
(*     inserts completing.                                                 *)
(* An action is one run of event-loop code between two awaits, or one      *)
(* statement group of the callback on the player thread.                   *)
(*                                                                         *)
(* Spec is the whole player with time standing still. The scenarios follow *)
(* one part more closely: SpecLoop a looping queue of one song, SpecReplay  *)
(* the same against a ticking clock, SpecIdle the inactivity timeout       *)
(* against a ticking clock, SpecRejoin the same with leave and join,       *)
(* SpecTiming the timestamps of one song, SpecRequest the play             *)
(* command step by step, SpecGuilds the play commands of several guilds    *)
(* and users, which share the one SongFactory of the cog                   *)
(* (music_bot/song_factory.py). The "Plays" figure of music_bot/stats.py   *)
(* is an operator on the state of the player and the usage database.       *)
(***************************************************************************)
EXTENDS Integers, Sequences, FiniteSets

\* ---------------------------------------------------------------- bounds
\* Song objects created by play commands (their ids are 1..MaxSongs).
MaxSongs == 2
\* Calls of voice_client.play over one run.
MaxStarted == 2
\* Length of the song queue (skip(back) can put songs back without end).
MaxQueue == 3
\* leave() calls of commands and listeners suspended in disconnect() at once.
MaxLeaving == 1
\* Start timestamps recorded so far below which a song is dequeued.
MaxStamps == 2
\* Stop timestamps recorded so far below which pause is called.
MaxStops == 1
\* Ticks of the clock (datetime.now()).
MaxTime == 3
\* Config.inactivity_timeout of the configuration file, in ticks.
inactivity_timeout == 3

SongIds == 1..MaxSongs
None == 0

\* Config.enable_usage_database (False unless configured): taken as on, the case
\* in which record_song_play_to_db inserts SongPlay rows.
enable_usage_database == TRUE

VARIABLES
    voice_client,        \* AudioPlayer.voice_client: "None" or "vc"
    leaving,             \* leave() calls suspended in voice_client.disconnect()
    player,              \* the voice client's player: "none", "playing", "paused"
    callbacks,           \* "after" calls owed or running, oldest first: why each song ended
    cb_pc,               \* position of the play_next_song call at the head of callbacks
    current_song,        \* AudioPlayer.current_song (None or a song)
    prev_songs,          \* AudioPlayer.prev_songs
    push_to_prev_songs,  \* AudioPlayer.push_to_prev_songs
    song_queue,          \* SongQueue._queue
    is_looping,          \* SongQueue.is_looping
    play_next_song_event,\* AudioPlayer.play_next_song_event (is it set)
    audio_player_task,   \* position of the play_audio task
    record_tasks,        \* songs of the record_song_play_to_db coroutines not yet run
    inserting,           \* per song, the SongPlay inserts under way
    song_plays,          \* per song, the SongPlay rows of the usage database
    next_id,             \* id of the next Song object a play command creates
    started,             \* per song, the voice_client.play calls that started it
    now,                 \* the clock read by datetime.now()
    timestamps_started,  \* per song, Song.timestamps_started
    timestamps_stopped,  \* per song, Song.timestamps_stopped
    durations,           \* per song, the duration of the SongPlay created last (NoPlay if none)
    song_requests,       \* songs whose SongRequest row is in the usage database
    play_pc,             \* the _play call under way: <<>>, or <<song, "inserting" or "inserted">>
    song_factory_ctx,    \* SongFactory.ctx of the one SongFactory of the cog (None or a context)
    play_cmds,           \* per command context, the position of its _play call
    play_songs,          \* per command context, the context its Song was built with (None: no Song yet)
    audio_players,       \* MusicCog.audio_players: per guild, the songs put in its player's queue
    song_request_rows,   \* the SongRequest rows the play commands inserted
    connected_at,        \* the clock when the voice connection was made (channel.connect)
    wait_started         \* the clock when asyncio.wait_for began the wait under way

vars == <<voice_client, leaving, player, callbacks, cb_pc, current_song, prev_songs,
          push_to_prev_songs, song_queue, is_looping, play_next_song_event,
          audio_player_task, record_tasks, inserting, song_plays,
          next_id, started, now, timestamps_started, timestamps_stopped, durations,
          song_requests, play_pc, song_factory_ctx, play_cmds, play_songs,
          audio_players, song_request_rows, connected_at, wait_started>>

\* The age of the voice connection and of the wait for the queue.
connection == <<connected_at, wait_started>>

\* The play commands of several guilds and users, and what they share.
guilds == <<song_factory_ctx, play_cmds, play_songs, audio_players, song_request_rows>>

\* The SongRequest rows and the play command that writes them.
requests == <<song_requests, play_pc>>

\* The clock and what the Song objects record of it.
song_times == <<now, timestamps_started, timestamps_stopped, durations>>

\* ------------------------------------------------------------ helpers
Count(seq, x) == Cardinality({i \in 1..Len(seq) : seq[i] = x})

Front(seq) == SubSeq(seq, 1, Len(seq) - 1)

Last(seq) == seq[Len(seq)]

RemoveAt(seq, i) == SubSeq(seq, 1, i - 1) \o SubSeq(seq, i + 1, Len(seq))

RECURSIVE Sum(_, _)
Sum(f, S) == IF S = {} THEN 0 ELSE LET x == CHOOSE y \in S : TRUE IN f[x] + Sum(f, S \ {x})

\* VoiceClient.is_playing() / is_paused() of the connected voice client.
is_playing == player = "playing"

is_paused == player = "paused"

\* AudioPlayer.is_currently_playing
is_currently_playing == voice_client # "None" /\ current_song # None

\* Songs handed to voice_client.play so far.
TotalStarted == Sum(started, SongIds)

\* Timestamps the Song objects hold in all.
TotalStamps(stamps) == Sum([s \in SongIds |-> Len(stamps[s])], SongIds)

\* ------------------------------------------------------------ Song
\* No SongPlay was created for the song yet.
NoPlay == -1
\* total_time_played raising TypeError (a stop timestamp with no start).
TypeError == -2

\* Song.record_start / Song.record_stop: datetime.now() is appended.
record_start(stamps, song) == [stamps EXCEPT ![song] = Append(@, now)]

record_stop(stamps, song) == [stamps EXCEPT ![song] = Append(@, now)]

\* total_time_played as the time from the first start to the last stop.
total_time_played_ignores_pauses(starts, stops) ==
    IF starts = <<>> /\ stops = <<>> THEN 0
    ELSE IF Len(stops) > Len(starts) THEN TypeError
    ELSE (IF Len(stops) < Len(starts) THEN now ELSE stops[Len(stops)]) - starts[1]

\* Song.total_time_played: itertools.zip_longest pairs the i-th start with the
\* i-th stop; a missing stop counts as now; a missing start (None) makes the
\* subtraction raise.
RECURSIVE total_time_played(_, _)
total_time_played(starts, stops) ==
    IF starts = <<>> /\ stops = <<>> THEN 0
    ELSE IF starts = <<>> THEN TypeError
    ELSE LET stop == IF stops = <<>> THEN now ELSE Head(stops)
             rest == total_time_played(Tail(starts), IF stops = <<>> THEN <<>> ELSE Tail(stops))
         IN IF rest = TypeError THEN TypeError ELSE (stop - Head(starts)) + rest

\* Song.requester (ctx.author of the play command) and Song.id (the id of the
\* YouTube video) of the Song objects of this guild: song 1 is requested by
\* user 1 and song 2 by user 2, of two different videos.
Users == 1..MaxSongs

Videos == 1..MaxSongs

requester == [s \in SongIds |-> s]

id == [s \in SongIds |-> s]

\* ------------------------------------------------------------ SongQueue
\* _put appending whatever play_next says.
put_always_appends(q, song, play_next) == Append(q, song)

\* SongQueue._put: appendleft for play_next, append otherwise.
put(q, song, play_next) == IF play_next THEN <<song>> \o q ELSE Append(q, song)

\* asyncio.Queue._maxsize: SongQueue.__init__ calls super().__init__() with no
\* maxsize, so it is 0, which asyncio takes as "no maximum".
maxsize == 0

\* asyncio.Queue.full(): never with maxsize <= 0.
full(q) == maxsize > 0 /\ Len(q) >= maxsize

\* put_nowait raises QueueFull.
put_nowait_raises(q) == full(q)

\* extend_nowait raises QueueFull: len(songs) > self._maxsize - self.qsize().
extend_nowait_raises(q, songs) == Len(songs) > maxsize - Len(q)

\* SongQueue._extend: extendleft(songs[::-1]) for play_next, extend otherwise.
extend(q, songs, play_next) == IF play_next THEN songs \o q ELSE q \o songs

\* SongQueue.extend_nowait: the queue afterwards.
extend_nowait(q, songs, play_next) ==
    IF extend_nowait_raises(q, songs) THEN q ELSE extend(q, songs, play_next)

\* SongQueue.put_nowait: never full (maxsize 0), then _put.
put_nowait(q, song, play_next) == put(q, song, play_next)

\* AudioPlayer.add_to_song_queue: the queue afterwards.
add_to_song_queue(q, song, play_next) == put_nowait(q, song, play_next)

\* MusicCog._play with a playlist, lines 507-511: the songs are added one by
\* one, in playlist order, each with the play_next of the command. The queue
\* afterwards, when the control loop takes no song out in between (a song is
\* playing).
RECURSIVE play_playlist(_, _, _)
play_playlist(q, songs, play_next) ==
    IF songs = <<>> THEN q
    ELSE play_playlist(add_to_song_queue(q, Head(songs), play_next), Tail(songs), play_next)

\* get() leaving the head in the queue.
get_queue_keeps_head(q, looping) == IF looping THEN put_nowait(q, Head(q), FALSE) ELSE q

\* get() that never puts the song back.
get_queue_ignores_looping(q, looping) == Tail(q)

\* get() that reads the flag the wrong way round.
get_queue_negates_looping(q, looping) ==
    IF looping THEN Tail(q) ELSE put_nowait(Tail(q), Head(q), FALSE)

\* SongQueue.get once the queue is non-empty: the head leaves the queue and, when
\* the queue is looping, is put back at the tail at once.
get_queue(q, looping) == IF looping THEN put_nowait(Tail(q), Head(q), FALSE) ELSE Tail(q)

get_song(q) == Head(q)

\* ------------------------------------------------------------ guilds
\* The command contexts (discord.ext.commands.Context) of the play commands:
\* context 1 is user 1 in guild 1, context 2 is user 2 in guild 2, context 3 is
\* user 3 in guild 1; each is issued in a channel of its own.
MaxCtxs == 3

Ctxs == 1..MaxCtxs

Guilds == 1..2

guild == [c \in Ctxs |-> IF c = 2 THEN 2 ELSE 1]

author == [c \in Ctxs |-> c]

channel == [c \in Ctxs |-> c]

\* No play command of the contexts has begun.
InitGuilds ==
    /\ song_factory_ctx = None
    /\ play_cmds = [c \in Ctxs |-> "none"]
    /\ play_songs = [c \in Ctxs |-> None]
    /\ audio_players = [g \in Guilds |-> <<>>]
    /\ song_request_rows = {}

\* ------------------------------------------------------------ Init
Init ==
    /\ voice_client = "None"
    /\ leaving = 0
    /\ player = "none"
    /\ callbacks = <<>>
    /\ cb_pc = "idle"
    /\ current_song = None
    /\ prev_songs = <<>>
    /\ push_to_prev_songs = TRUE
    /\ song_queue = <<>>
    /\ is_looping = FALSE
    /\ play_next_song_event = FALSE
    /\ audio_player_task = "None"
    /\ record_tasks = <<>>
    /\ inserting = [s \in SongIds |-> 0]
    /\ song_plays = [s \in SongIds |-> 0]
    /\ next_id = 1
    /\ started = [s \in SongIds |-> 0]
    /\ now = 0
    /\ timestamps_started = [s \in SongIds |-> <<>>]
    /\ timestamps_stopped = [s \in SongIds |-> <<>>]
    /\ durations = [s \in SongIds |-> NoPlay]
    /\ song_requests = 1..(next_id - 1)
    /\ play_pc = <<>>
    /\ InitGuilds
    /\ connected_at = 0
    /\ wait_started = 0

\* ------------------------------------------------------------ voice client
\* VoiceClient.stop(): the player, if any, is dropped at once; its thread leaves
\* its loop and owes the "after" call (with no error).
stop_callbacks(p, cbs) == IF p # "none" THEN Append(cbs, "stopped") ELSE cbs

\* Line 106-109: current_song.record_start() raises when the queue yielded None;
\* VoiceClient.play() raises when the client is not connected (possible while a
\* disconnect() is under way) or already plays; building the audio source can
\* raise as well.
PlayFailures == {"none", "audio_source", "not_connected"}

play_raises(f) ==
    \/ get_song(song_queue) = None
    \/ voice_client = "None"
    \/ f = "audio_source"
    \/ (f = "not_connected" /\ leaving > 0)
    \/ is_playing

\* ------------------------------------------------------------ control loop
\* play_audio from poll_song_queue returning to the await of channel.send:
\* current_song is assigned, and voice_client.play is issued (lines 105-109).
\* current_song.record_start() (line 106) comes before the audio source is built
\* and played, so a failing start leaves its start timestamp.
\* An exception leaves the while loop through the outer except: the task is done.
DequeueAndPlay(f) ==
    /\ song_queue # <<>>
    /\ TotalStarted < MaxStarted
    /\ TotalStamps(timestamps_started) < MaxStamps
    /\ timestamps_started' = record_start(timestamps_started, get_song(song_queue))
    /\ UNCHANGED <<now, timestamps_stopped, durations>>
    /\ UNCHANGED requests
    /\ UNCHANGED guilds
    /\ UNCHANGED connection
    /\ current_song' = get_song(song_queue)
    /\ song_queue' = get_queue(song_queue, is_looping)
    /\ IF play_raises(f)
       THEN /\ audio_player_task' = "done"
            /\ UNCHANGED <<player, started>>
       ELSE /\ audio_player_task' = "sending"
            /\ player' = "playing"
            /\ started' = [started EXCEPT ![get_song(song_queue)] = @ + 1]
    /\ UNCHANGED <<voice_client, leaving, callbacks, cb_pc, prev_songs, push_to_prev_songs,
                   is_looping, record_tasks, inserting, song_plays, next_id>>

\* The top of the while loop (line 94) up to the next await: the event is
\* cleared, then either the queue is empty and the task waits in get(), or the
\* head is dequeued and played.
LoopTop ==
    /\ play_next_song_event' = FALSE
    /\ IF song_queue = <<>>
       THEN /\ audio_player_task' = "polling"
            /\ wait_started' = now
            /\ UNCHANGED <<voice_client, leaving, player, callbacks, cb_pc, current_song,
                           prev_songs, push_to_prev_songs, song_queue, is_looping,
                           record_tasks, inserting, song_plays, next_id, started>>
            /\ UNCHANGED song_times
            /\ UNCHANGED requests
            /\ UNCHANGED guilds
            /\ UNCHANGED connected_at
       ELSE \E f \in PlayFailures : DequeueAndPlay(f)

\* The task created by start_audio_player runs for the first time.
TaskRun ==
    /\ audio_player_task = "created"
    /\ LoopTop

\* get() wakes up with a song in the queue.
PollWake ==
    /\ audio_player_task = "polling"
    /\ UNCHANGED play_next_song_event
    /\ \E f \in PlayFailures : DequeueAndPlay(f)

\* channel.send returns; play_next_song_event.wait() returns at once when the
\* event is already set.
SendDone ==
    /\ audio_player_task = "sending"
    /\ IF play_next_song_event
       THEN LoopTop
       ELSE /\ audio_player_task' = "waiting"
            /\ UNCHANGED <<voice_client, leaving, player, callbacks, cb_pc, current_song,
                           prev_songs, push_to_prev_songs, song_queue, is_looping,
                           play_next_song_event, record_tasks, inserting, song_plays, next_id, started>>
            /\ UNCHANGED song_times
            /\ UNCHANGED requests
            /\ UNCHANGED guilds
            /\ UNCHANGED connection

\* channel.send raises: the exception ends play_audio (lines 117-118).
SendFails ==
    /\ audio_player_task = "sending"
    /\ audio_player_task' = "done"
    /\ UNCHANGED <<voice_client, leaving, player, callbacks, cb_pc, current_song,
                   prev_songs, push_to_prev_songs, song_queue, is_looping,
                   play_next_song_event, record_tasks, inserting, song_plays, next_id, started>>
    /\ UNCHANGED song_times
    /\ UNCHANGED requests
    /\ UNCHANGED guilds
    /\ UNCHANGED connection

\* play_next_song_event.wait() returns.
EventWake ==
    /\ audio_player_task = "waiting"
    /\ play_next_song_event
    /\ LoopTop

\* The wait for the next song times out (lines 101-103): leave() runs inside the
\* task. With a voice client it stops the player and awaits disconnect().
PollTimeout ==
    /\ audio_player_task = "polling"
    /\ IF voice_client # "None"
       THEN /\ audio_player_task' = "leaving"
            /\ song_queue' = IF is_currently_playing THEN <<>> ELSE song_queue
            /\ callbacks' = stop_callbacks(player, callbacks)
            /\ player' = "none"
       ELSE /\ audio_player_task' = "done"
            /\ UNCHANGED <<song_queue, callbacks, player>>
    /\ UNCHANGED <<voice_client, leaving, cb_pc, current_song, prev_songs,
                   push_to_prev_songs, is_looping, play_next_song_event, record_tasks,
                   inserting, song_plays, next_id, started>>
    /\ UNCHANGED song_times
    /\ UNCHANGED requests
    /\ UNCHANGED guilds
    /\ UNCHANGED connection

\* leave() skipping disconnect(): the task returns with the client connected.
TimeoutLeaveDone_stays_connected ==
    /\ audio_player_task = "leaving"
    /\ audio_player_task' = "done"
    /\ UNCHANGED <<voice_client, leaving, player, callbacks, cb_pc, current_song,
                   prev_songs, push_to_prev_songs, song_queue, is_looping,
                   play_next_song_event, record_tasks, inserting, song_plays,
                   next_id, started>>
    /\ UNCHANGED song_times
    /\ UNCHANGED requests
    /\ UNCHANGED guilds
    /\ UNCHANGED connection

\* disconnect() returns inside the task's leave(): voice_client = None, return.
\* A player started on the client meanwhile ends with the connection.
TimeoutLeaveDone ==
    /\ audio_player_task = "leaving"
    /\ audio_player_task' = "done"
    /\ voice_client' = "None"
    /\ callbacks' = stop_callbacks(player, callbacks)
    /\ player' = "none"
    /\ UNCHANGED <<leaving, cb_pc, current_song, prev_songs,
                   push_to_prev_songs, song_queue, is_looping, play_next_song_event,
                   record_tasks, inserting, song_plays, next_id, started>>
    /\ UNCHANGED song_times
    /\ UNCHANGED requests
    /\ UNCHANGED guilds
    /\ UNCHANGED connection

\* ------------------------------------------------------------ player thread
\* A song plays to its end: the player thread leaves its loop and owes "after".
SongEnds ==
    /\ player = "playing"
    /\ player' = "none"
    /\ callbacks' = Append(callbacks, "ended")
    /\ UNCHANGED <<voice_client, leaving, cb_pc, current_song, prev_songs,
                   push_to_prev_songs, song_queue, is_looping, play_next_song_event,
                   audio_player_task, record_tasks, inserting, song_plays,
                   next_id, started>>
    /\ UNCHANGED song_times
    /\ UNCHANGED requests
    /\ UNCHANGED guilds
    /\ UNCHANGED connection

\* Playing fails in the player thread: "after" is owed with the error.
SongFails ==
    /\ player = "playing"
    /\ player' = "none"
    /\ callbacks' = Append(callbacks, "error")
    /\ UNCHANGED <<voice_client, leaving, cb_pc, current_song, prev_songs,
                   push_to_prev_songs, song_queue, is_looping, play_next_song_event,
                   audio_player_task, record_tasks, inserting, song_plays,
                   next_id, started>>
    /\ UNCHANGED song_times
    /\ UNCHANGED requests
    /\ UNCHANGED guilds
    /\ UNCHANGED connection

\* play_next_song, lines 183-192, on the player thread. With an error it raises
\* AudioError at once. Otherwise record_song_play_to_db(self.current_song) is
\* handed to the event loop; the argument is read here.
CallbackBegin ==
    /\ cb_pc = "idle"
    /\ callbacks # <<>>
    /\ IF Head(callbacks) = "error"
       THEN /\ callbacks' = Tail(callbacks)
            /\ UNCHANGED <<cb_pc, record_tasks>>
       ELSE /\ cb_pc' = "scheduled"
            /\ record_tasks' = Append(record_tasks, current_song)
            /\ UNCHANGED callbacks
    /\ UNCHANGED <<voice_client, leaving, player, current_song, prev_songs,
                   push_to_prev_songs, song_queue, is_looping, play_next_song_event,
                   audio_player_task, inserting, song_plays, next_id, started>>
    /\ UNCHANGED song_times
    /\ UNCHANGED requests
    /\ UNCHANGED guilds
    /\ UNCHANGED connection

\* play_next_song, lines 194-199, on the player thread.
CallbackBookkeeping ==
    /\ cb_pc = "scheduled"
    /\ cb_pc' = "cleared"
    /\ IF push_to_prev_songs
       THEN /\ prev_songs' = Append(prev_songs, current_song)
            /\ UNCHANGED push_to_prev_songs
       ELSE /\ push_to_prev_songs' = TRUE
            /\ UNCHANGED prev_songs
    /\ current_song' = None
    /\ UNCHANGED <<voice_client, leaving, player, callbacks, song_queue, is_looping,
                   play_next_song_event, audio_player_task, record_tasks, inserting, song_plays, next_id, started>>
    /\ UNCHANGED song_times
    /\ UNCHANGED requests
    /\ UNCHANGED guilds
    /\ UNCHANGED connection

\* play_next_song, line 200, on the player thread.
CallbackSignal ==
    /\ cb_pc = "cleared"
    /\ cb_pc' = "idle"
    /\ callbacks' = Tail(callbacks)
    /\ play_next_song_event' = TRUE
    /\ UNCHANGED <<voice_client, leaving, player, current_song, prev_songs,
                   push_to_prev_songs, song_queue, is_looping, audio_player_task,
                   record_tasks, inserting, song_plays, next_id, started>>
    /\ UNCHANGED song_times
    /\ UNCHANGED requests
    /\ UNCHANGED guilds
    /\ UNCHANGED connection

\* ------------------------------------------------------------ usage database
\* record_song_play_to_db returning without an insert.
RecordRun_drops ==
    /\ record_tasks # <<>>
    /\ record_tasks' = Tail(record_tasks)
    /\ UNCHANGED <<voice_client, leaving, player, callbacks, cb_pc, current_song,
                   prev_songs, push_to_prev_songs, song_queue, is_looping,
                   play_next_song_event, audio_player_task, inserting, song_plays,
                   next_id, started>>
    /\ UNCHANGED song_times
    /\ UNCHANGED requests
    /\ UNCHANGED guilds
    /\ UNCHANGED connection

\* Song.create_song_play: the duration of the SongPlay, or TypeError.
create_song_play(song, stops) == total_time_played(timestamps_started[song], stops[song])

\* record_song_play_to_db up to its await (lines 271-278), for the oldest
\* coroutine not yet run. With recording off it returns; with no song (None)
\* record_stop raises; otherwise the song records a stop, and the SongPlay is
\* created and handed to insert_data unless total_time_played raises.
RecordRun ==
    /\ record_tasks # <<>>
    /\ record_tasks' = Tail(record_tasks)
    /\ IF enable_usage_database /\ Head(record_tasks) # None
       THEN LET song == Head(record_tasks)
                stops == record_stop(timestamps_stopped, song)
            IN /\ timestamps_stopped' = stops
               /\ IF create_song_play(song, stops) = TypeError
                  THEN UNCHANGED <<inserting, durations>>
                  ELSE /\ inserting' = [inserting EXCEPT ![song] = @ + 1]
                       /\ durations' = [durations EXCEPT ![song] = create_song_play(song, stops)]
       ELSE UNCHANGED <<inserting, timestamps_stopped, durations>>
    /\ UNCHANGED <<now, timestamps_started>>
    /\ UNCHANGED requests
    /\ UNCHANGED guilds
    /\ UNCHANGED connection
    /\ UNCHANGED <<voice_client, leaving, player, callbacks, cb_pc, current_song,
                   prev_songs, push_to_prev_songs, song_queue, is_looping,
                   play_next_song_event, audio_player_task, song_plays, next_id, started>>

\* usage_db.insert_data commits the SongPlay row of a song.
RecordInsert(song) ==
    /\ inserting[song] > 0
    /\ inserting' = [inserting EXCEPT ![song] = @ - 1]
    /\ song_plays' = [song_plays EXCEPT ![song] = @ + 1]
    /\ UNCHANGED <<voice_client, leaving, player, callbacks, cb_pc, current_song,
                   prev_songs, push_to_prev_songs, song_queue, is_looping,
                   play_next_song_event, audio_player_task, record_tasks, next_id, started>>
    /\ UNCHANGED song_times
    /\ UNCHANGED requests
    /\ UNCHANGED guilds
    /\ UNCHANGED connection

\* usage_db.insert_data raises for the SongPlay of a song: the exception stays
\* in the future run_coroutine_threadsafe returned, which nothing reads.
RecordInsertFails(song) ==
    /\ inserting[song] > 0
    /\ inserting' = [inserting EXCEPT ![song] = @ - 1]
    /\ UNCHANGED <<voice_client, leaving, player, callbacks, cb_pc, current_song,
                   prev_songs, push_to_prev_songs, song_queue, is_looping,
                   play_next_song_event, audio_player_task, record_tasks, song_plays,
                   next_id, started>>
    /\ UNCHANGED song_times
    /\ UNCHANGED requests
    /\ UNCHANGED guilds
    /\ UNCHANGED connection

\* ------------------------------------------------------------ stats
\* StatsFactory.filter_kwargs of a query in this guild: guild_id always, and
\* requester_id and song_id when the query names a user or a song (None: the
\* key is absent).
Filters == [requester_id : {None} \cup Users, song_id : {None} \cup Videos]

\* The SongPlay rows of song s pass filter_by(**filter_kwargs).
filter_by(s, filter_kwargs) ==
    /\ filter_kwargs.requester_id \in {None, requester[s]}
    /\ filter_kwargs.song_id \in {None, id[s]}

\* UsageDatabase.get_song_play_count: the SongPlay rows passing the filter.
get_song_play_count(filter_kwargs) ==
    Sum([s \in SongIds |-> IF filter_by(s, filter_kwargs) THEN song_plays[s] ELSE 0], SongIds)

\* StatsFactory.is_current_song_relevant: the query's audio player is the one
\* of its guild; of the filter only song_id is compared.
is_current_song_relevant(filter_kwargs) ==
    /\ is_currently_playing
    /\ filter_kwargs.song_id \in {None, id[current_song]}

\* StatsFactory.get_num_songs_played ("Plays"), both reads taken in one state.
get_num_songs_played(filter_kwargs) ==
    get_song_play_count(filter_kwargs)
        + (IF is_current_song_relevant(filter_kwargs) THEN 1 ELSE 0)

\* ------------------------------------------------------------ commands
\* join calling start_audio_player() whatever the task does.
Join_always_starts ==
    /\ voice_client' = "vc"
    /\ audio_player_task' = "created"
    /\ UNCHANGED <<leaving, player, callbacks, cb_pc, current_song, prev_songs,
                   push_to_prev_songs, song_queue, is_looping, play_next_song_event,
                   record_tasks, inserting, song_plays, next_id, started>>
    /\ UNCHANGED song_times
    /\ UNCHANGED requests
    /\ UNCHANGED guilds
    /\ connected_at' = IF voice_client = "None" THEN now ELSE connected_at
    /\ UNCHANGED wait_started

\* MusicCog.join: connect when there is no voice client (move_to otherwise), and
\* start the control loop when there is no task or the task is done.
Join ==
    /\ voice_client' = "vc"
    /\ audio_player_task' = IF audio_player_task \in {"None", "done"}
                            THEN "created" ELSE audio_player_task
    /\ UNCHANGED <<leaving, player, callbacks, cb_pc, current_song, prev_songs,
                   push_to_prev_songs, song_queue, is_looping, play_next_song_event,
                   record_tasks, inserting, song_plays, next_id, started>>
    /\ UNCHANGED song_times
    /\ UNCHANGED requests
    /\ UNCHANGED guilds
    /\ connected_at' = IF voice_client = "None" THEN now ELSE connected_at
    /\ UNCHANGED wait_started

\* MusicCog._play with a single song, from the Song's creation to
\* add_to_song_queue, with no other task run in between: the SongRequest row is
\* inserted (lines 493-494), then the song is put in the queue (line 495).
Enqueue(play_next) ==
    /\ next_id <= MaxSongs
    /\ Len(song_queue) < MaxQueue
    /\ song_queue' = put_nowait(song_queue, next_id, play_next)
    /\ next_id' = next_id + 1
    /\ UNCHANGED <<voice_client, leaving, player, callbacks, cb_pc, current_song,
                   prev_songs, push_to_prev_songs, is_looping, play_next_song_event,
                   audio_player_task, record_tasks, inserting, song_plays,
                   started>>
    /\ UNCHANGED song_times
    /\ UNCHANGED guilds
    /\ UNCHANGED connection
    /\ play_pc = <<>>
    /\ song_requests' = song_requests \cup {next_id}
    /\ UNCHANGED play_pc

\* What a call of each method gives in the current state: "True", "False", or
\* "raises" when an exception leaves the method.
\* skip: self.voice_client.is_playing() on None raises AttributeError;
\* prev_songs.pop() on an empty list raises IndexError.
skip_returns(back) ==
    IF voice_client = "None" THEN "raises"
    ELSE IF is_playing
         THEN (IF back /\ prev_songs = <<>> THEN "raises" ELSE "True")
         ELSE "False"

\* pause: is_playing() on None raises; so does record_stop() on a None song.
pause_returns ==
    IF voice_client = "None" THEN "raises"
    ELSE IF is_playing
         THEN (IF current_song = None THEN "raises" ELSE "True")
         ELSE "False"

\* resume: is_paused() on None raises; so does record_start() on a None song.
resume_returns ==
    IF voice_client = "None" THEN "raises"
    ELSE IF is_paused
         THEN (IF current_song = None THEN "raises" ELSE "True")
         ELSE "False"

\* stop: true exactly when is_currently_playing.
stop_returns == IF is_currently_playing THEN "True" ELSE "False"

\* leave: true exactly when there is a voice client.
leave_returns == IF voice_client # "None" THEN "True" ELSE "False"

\* pause() that forgets current_song.record_stop().
pause_without_record_stop ==
    /\ player' = IF voice_client # "None" /\ is_playing THEN "paused" ELSE player
    /\ UNCHANGED <<voice_client, leaving, callbacks, cb_pc, current_song, prev_songs,
                   push_to_prev_songs, song_queue, is_looping, play_next_song_event,
                   audio_player_task, record_tasks, inserting, song_plays,
                   next_id, started>>
    /\ UNCHANGED song_times
    /\ UNCHANGED requests
    /\ UNCHANGED guilds
    /\ UNCHANGED connection

\* skip() that takes the skipped song out of the queue.
skip_drops_current_song(back) ==
    /\ back => Len(song_queue) + 2 <= MaxQueue
    /\ IF voice_client # "None" /\ is_playing
       THEN /\ song_queue' = SelectSeq(song_queue, LAMBDA s : s # current_song)
            /\ callbacks' = stop_callbacks(player, callbacks)
            /\ player' = "none"
       ELSE UNCHANGED <<song_queue, player, callbacks>>
    /\ UNCHANGED <<voice_client, leaving, cb_pc, current_song, is_looping, prev_songs,
                   push_to_prev_songs, play_next_song_event, audio_player_task,
                   record_tasks, inserting, song_plays, next_id, started>>
    /\ UNCHANGED song_times
    /\ UNCHANGED requests
    /\ UNCHANGED guilds
    /\ UNCHANGED connection

\* AudioPlayer.skip. Without a voice client is_playing() raises. With back, the
\* current song goes to the head of the queue, then prev_songs.pop() raises on
\* an empty list and the call ends there; otherwise the popped song goes to the
\* head too. Then the voice client is stopped.
skip(back) ==
    /\ back => Len(song_queue) + 2 <= MaxQueue
    /\ IF voice_client # "None" /\ is_playing
       THEN IF back /\ prev_songs = <<>>
            THEN /\ song_queue' = put_nowait(song_queue, current_song, TRUE)
                 /\ UNCHANGED <<prev_songs, push_to_prev_songs, player, callbacks>>
            ELSE /\ song_queue' =
                      IF back
                      THEN put_nowait(put_nowait(song_queue, current_song, TRUE),
                                      Last(prev_songs), TRUE)
                      ELSE song_queue
                 /\ prev_songs' = IF back THEN Front(prev_songs) ELSE prev_songs
                 /\ push_to_prev_songs' = IF back THEN FALSE ELSE push_to_prev_songs
                 /\ callbacks' = stop_callbacks(player, callbacks)
                 /\ player' = "none"
       ELSE UNCHANGED <<song_queue, prev_songs, push_to_prev_songs, player, callbacks>>
    /\ UNCHANGED <<voice_client, leaving, cb_pc, current_song, is_looping,
                   play_next_song_event, audio_player_task, record_tasks, inserting, song_plays, next_id, started>>
    /\ UNCHANGED song_times
    /\ UNCHANGED requests
    /\ UNCHANGED guilds
    /\ UNCHANGED connection

\* AudioPlayer.pause: voice_client.pause(), then current_song.record_stop(),
\* which raises when current_song is None.
pause ==
    /\ TotalStamps(timestamps_stopped) < MaxStops
    /\ player' = IF voice_client # "None" /\ is_playing THEN "paused" ELSE player
    /\ timestamps_stopped' =
           IF voice_client # "None" /\ is_playing /\ current_song # None
           THEN record_stop(timestamps_stopped, current_song)
           ELSE timestamps_stopped
    /\ UNCHANGED <<now, timestamps_started, durations>>
    /\ UNCHANGED requests
    /\ UNCHANGED guilds
    /\ UNCHANGED connection
    /\ UNCHANGED <<voice_client, leaving, callbacks, cb_pc, current_song, prev_songs,
                   push_to_prev_songs, song_queue, is_looping, play_next_song_event,
                   audio_player_task, record_tasks, inserting, song_plays,
                   next_id, started>>

\* AudioPlayer.resume: current_song.record_start() comes before
\* voice_client.resume(), and raises when current_song is None.
resume ==
    /\ player' = IF voice_client # "None" /\ is_paused /\ current_song # None
                 THEN "playing" ELSE player
    /\ timestamps_started' =
           IF voice_client # "None" /\ is_paused /\ current_song # None
           THEN record_start(timestamps_started, current_song)
           ELSE timestamps_started
    /\ UNCHANGED <<now, timestamps_stopped, durations>>
    /\ UNCHANGED requests
    /\ UNCHANGED guilds
    /\ UNCHANGED connection
    /\ UNCHANGED <<voice_client, leaving, callbacks, cb_pc, current_song, prev_songs,
                   push_to_prev_songs, song_queue, is_looping, play_next_song_event,
                   audio_player_task, record_tasks, inserting, song_plays,
                   next_id, started>>

\* stop() that retires the current song itself.
stop_clears_current_song ==
    /\ IF is_currently_playing
       THEN /\ song_queue' = <<>>
            /\ callbacks' = stop_callbacks(player, callbacks)
            /\ player' = "none"
            /\ current_song' = None
       ELSE UNCHANGED <<song_queue, callbacks, player, current_song>>
    /\ UNCHANGED <<voice_client, leaving, cb_pc, prev_songs,
                   push_to_prev_songs, is_looping, play_next_song_event,
                   audio_player_task, record_tasks, inserting, song_plays,
                   next_id, started>>
    /\ UNCHANGED song_times
    /\ UNCHANGED requests
    /\ UNCHANGED guilds
    /\ UNCHANGED connection

\* stop() that leaves the queue as it is.
stop_keeps_song_queue ==
    /\ IF is_currently_playing
       THEN /\ callbacks' = stop_callbacks(player, callbacks)
            /\ player' = "none"
       ELSE UNCHANGED <<callbacks, player>>
    /\ UNCHANGED <<voice_client, leaving, cb_pc, current_song, prev_songs,
                   push_to_prev_songs, song_queue, is_looping, play_next_song_event,
                   audio_player_task, record_tasks, inserting, song_plays,
                   next_id, started>>
    /\ UNCHANGED song_times
    /\ UNCHANGED requests
    /\ UNCHANGED guilds
    /\ UNCHANGED connection

\* AudioPlayer.stop.
stop ==
    /\ IF is_currently_playing
       THEN /\ song_queue' = <<>>
            /\ callbacks' = stop_callbacks(player, callbacks)
            /\ player' = "none"
       ELSE UNCHANGED <<song_queue, callbacks, player>>
    /\ UNCHANGED <<voice_client, leaving, cb_pc, current_song, prev_songs,
                   push_to_prev_songs, is_looping, play_next_song_event,
                   audio_player_task, record_tasks, inserting, song_plays,
                   next_id, started>>
    /\ UNCHANGED song_times
    /\ UNCHANGED requests
    /\ UNCHANGED guilds
    /\ UNCHANGED connection

\* AudioPlayer.leave up to its await: stop(), then disconnect() is called (it
\* stops the voice client's player itself).
LeaveBegin ==
    /\ leaving < MaxLeaving
    /\ voice_client # "None"
    /\ leaving' = leaving + 1
    /\ song_queue' = IF is_currently_playing THEN <<>> ELSE song_queue
    /\ callbacks' = stop_callbacks(player, callbacks)
    /\ player' = "none"
    /\ UNCHANGED <<voice_client, cb_pc, current_song, prev_songs, push_to_prev_songs,
                   is_looping, play_next_song_event, audio_player_task, record_tasks,
                   inserting, song_plays, next_id, started>>
    /\ UNCHANGED song_times
    /\ UNCHANGED requests
    /\ UNCHANGED guilds
    /\ UNCHANGED connection

\* AudioPlayer.leave after its await: voice_client = None. A player started on
\* the client meanwhile ends with the connection.
LeaveDone ==
    /\ leaving > 0
    /\ leaving' = leaving - 1
    /\ voice_client' = "None"
    /\ callbacks' = stop_callbacks(player, callbacks)
    /\ player' = "none"
    /\ UNCHANGED <<cb_pc, current_song, prev_songs,
                   push_to_prev_songs, song_queue, is_looping, play_next_song_event,
                   audio_player_task, record_tasks, inserting, song_plays,
                   next_id, started>>
    /\ UNCHANGED song_times
    /\ UNCHANGED requests
    /\ UNCHANGED guilds
    /\ UNCHANGED connection

\* AudioPlayer.flip_is_queue_looping / SongQueue.flip_is_looping.
flip_is_looping ==
    /\ is_looping' = ~is_looping
    /\ UNCHANGED <<voice_client, leaving, player, callbacks, cb_pc, current_song,
                   prev_songs, push_to_prev_songs, song_queue, play_next_song_event,
                   audio_player_task, record_tasks, inserting, song_plays,
                   next_id, started>>
    /\ UNCHANGED song_times
    /\ UNCHANGED requests
    /\ UNCHANGED guilds
    /\ UNCHANGED connection

\* SongQueue.clear (MusicCog.clear).
clear ==
    /\ song_queue # <<>>
    /\ song_queue' = <<>>
    /\ UNCHANGED <<voice_client, leaving, player, callbacks, cb_pc, current_song,
                   prev_songs, push_to_prev_songs, is_looping, play_next_song_event,
                   audio_player_task, record_tasks, inserting, song_plays,
                   next_id, started>>
    /\ UNCHANGED song_times
    /\ UNCHANGED requests
    /\ UNCHANGED guilds
    /\ UNCHANGED connection

\* remove() with no lower bound on the index: a negative one counts from the
\* tail, as del on a deque does.
remove_counts_from_tail(q, index) ==
    IF index < Len(q) /\ index >= -Len(q)
    THEN RemoveAt(q, IF index >= 0 THEN index + 1 ELSE Len(q) + index + 1)
    ELSE q

\* SongQueue.remove(index): the song returned, None when the index is out of
\* range.
remove_song(q, index) == IF index >= 0 /\ index < Len(q) THEN q[index + 1] ELSE None

\* SongQueue.remove(index): the queue without the song at the 0-based index when
\* 0 <= index < qsize, the queue as it is otherwise.
remove(q, index) == IF index >= 0 /\ index < Len(q) THEN RemoveAt(q, index + 1) ELSE q

\* MusicCog.remove with the 1-based position a user gives.
Remove(position) ==
    /\ song_queue' = remove(song_queue, position - 1)
    /\ UNCHANGED <<voice_client, leaving, player, callbacks, cb_pc, current_song,
                   prev_songs, push_to_prev_songs, is_looping, play_next_song_event,
                   audio_player_task, record_tasks, inserting, song_plays,
                   next_id, started>>
    /\ UNCHANGED song_times
    /\ UNCHANGED requests
    /\ UNCHANGED guilds
    /\ UNCHANGED connection

\* ------------------------------------------------------------ play command
\* MusicCog._play step by step. The Song is created and
\* usage_db.insert_data(song.create_song_request()) is awaited (lines 493-494
\* for a single song, 508-509 for each song of a playlist).
PlayBegin ==
    /\ play_pc = <<>>
    /\ next_id <= MaxSongs
    /\ play_pc' = <<next_id, "inserting">>
    /\ next_id' = next_id + 1
    /\ UNCHANGED <<voice_client, leaving, player, callbacks, cb_pc, current_song,
                   prev_songs, push_to_prev_songs, song_queue, is_looping,
                   play_next_song_event, audio_player_task, record_tasks, inserting,
                   song_plays, started, song_requests>>
    /\ UNCHANGED song_times
    /\ UNCHANGED guilds
    /\ UNCHANGED connection

\* insert_data commits the SongRequest row.
PlayInserted ==
    /\ play_pc # <<>>
    /\ play_pc[2] = "inserting"
    /\ song_requests' = song_requests \cup {play_pc[1]}
    /\ play_pc' = <<play_pc[1], "inserted">>
    /\ UNCHANGED <<voice_client, leaving, player, callbacks, cb_pc, current_song,
                   prev_songs, push_to_prev_songs, song_queue, is_looping,
                   play_next_song_event, audio_player_task, record_tasks, inserting,
                   song_plays, next_id, started>>
    /\ UNCHANGED song_times
    /\ UNCHANGED guilds
    /\ UNCHANGED connection

\* insert_data raises: the exception leaves _play, the song is not queued.
PlayInsertFails ==
    /\ play_pc # <<>>
    /\ play_pc[2] = "inserting"
    /\ play_pc' = <<>>
    /\ UNCHANGED <<voice_client, leaving, player, callbacks, cb_pc, current_song,
                   prev_songs, push_to_prev_songs, song_queue, is_looping,
                   play_next_song_event, audio_player_task, record_tasks, inserting,
                   song_plays, next_id, started, song_requests>>
    /\ UNCHANGED song_times
    /\ UNCHANGED guilds
    /\ UNCHANGED connection

\* add_to_song_queue without waiting for the SongRequest insert.
PlayAdd_before_insert(play_next) ==
    /\ play_pc # <<>>
    /\ Len(song_queue) < MaxQueue
    /\ song_queue' = put_nowait(song_queue, play_pc[1], play_next)
    /\ play_pc' = <<>>
    /\ UNCHANGED <<voice_client, leaving, player, callbacks, cb_pc, current_song,
                   prev_songs, push_to_prev_songs, is_looping,
                   play_next_song_event, audio_player_task, record_tasks, inserting,
                   song_plays, next_id, started, song_requests>>
    /\ UNCHANGED song_times
    /\ UNCHANGED guilds
    /\ UNCHANGED connection

\* The await of insert_data has returned: add_to_song_queue (line 495 or 511).
PlayAdd(play_next) ==
    /\ play_pc # <<>>
    /\ play_pc[2] = "inserted"
    /\ Len(song_queue) < MaxQueue
    /\ song_queue' = put_nowait(song_queue, play_pc[1], play_next)
    /\ play_pc' = <<>>
    /\ UNCHANGED <<voice_client, leaving, player, callbacks, cb_pc, current_song,
                   prev_songs, push_to_prev_songs, is_looping,
                   play_next_song_event, audio_player_task, record_tasks, inserting,
                   song_plays, next_id, started, song_requests>>
    /\ UNCHANGED song_times
    /\ UNCHANGED guilds
    /\ UNCHANGED connection

\* ------------------------------------------------------------ play commands of several guilds
\* The variables of the one audio player followed above.
one_player == <<voice_client, leaving, player, callbacks, cb_pc, current_song, prev_songs,
                push_to_prev_songs, song_queue, is_looping, play_next_song_event,
                audio_player_task, record_tasks, inserting, song_plays, next_id, started,
                now, timestamps_started, timestamps_stopped, durations, song_requests,
                play_pc, connected_at, wait_started>>

\* _play of context c, lines 474-489: self.song_factory.ctx = ctx, then the
\* song factory is called and awaits yt-dlp (or Spotify).
PlaySetCtx(c) ==
    /\ play_cmds[c] = "none"
    /\ song_factory_ctx' = c
    /\ play_cmds' = [play_cmds EXCEPT ![c] = "resolving"]
    /\ UNCHANGED <<play_songs, audio_players, song_request_rows>>
    /\ UNCHANGED one_player

\* The factory's await returns and it builds Song(self.config, self.ctx, ...)
\* (song_factory.py line 180): the Song takes guild, requester and channel from
\* the context the factory holds now. _play goes on to await insert_data.
PlaySongCreated(c) ==
    /\ play_cmds[c] = "resolving"
    /\ play_songs' = [play_songs EXCEPT ![c] = song_factory_ctx]
    /\ play_cmds' = [play_cmds EXCEPT ![c] = "inserting"]
    /\ UNCHANGED <<song_factory_ctx, audio_players, song_request_rows>>
    /\ UNCHANGED one_player

\* The SongRequest built by song.create_song_request() (guild_id and
\* requester_id of the Song) is inserted, and the song is put in the queue of
\* ctx.audio_player, the player of the command's guild (lines 493-495).
PlayQueued(c) ==
    /\ play_cmds[c] = "inserting"
    /\ song_request_rows' = song_request_rows \cup
           {[cmd |-> c, guild_id |-> guild[play_songs[c]],
             requester_id |-> author[play_songs[c]]]}
    /\ audio_players' = [audio_players EXCEPT
                             ![guild[c]] = Append(@, [cmd |-> c, ctx |-> play_songs[c]])]
    /\ play_cmds' = [play_cmds EXCEPT ![c] = "done"]
    /\ UNCHANGED <<song_factory_ctx, play_songs>>
    /\ UNCHANGED one_player

\* ------------------------------------------------------------ time
\* Time passes: datetime.now() and the event loop's clock advance.
Tick ==
    /\ now < MaxTime
    /\ now' = now + 1
    /\ UNCHANGED <<voice_client, leaving, player, callbacks, cb_pc, current_song,
                   prev_songs, push_to_prev_songs, song_queue, is_looping,
                   play_next_song_event, audio_player_task, record_tasks, inserting,
                   song_plays, next_id, started, timestamps_started,
                   timestamps_stopped, durations>>
    /\ UNCHANGED requests
    /\ UNCHANGED guilds
    /\ UNCHANGED connection

\* Time passes while asyncio.wait_for (line 98) waits for the queue.
IdleTick ==
    /\ audio_player_task = "polling"
    /\ now < inactivity_timeout
    /\ Tick

\* wait_for's timeout expires inactivity_timeout after the wait began.
TimedOut ==
    /\ now >= wait_started + inactivity_timeout
    /\ PollTimeout

\* ------------------------------------------------------------ specification
Next ==
    \/ Join
    \/ \E play_next \in BOOLEAN : Enqueue(play_next)
    \/ flip_is_looping
    \/ TaskRun
    \/ PollWake
    \/ SendDone
    \/ SendFails
    \/ EventWake
    \/ PollTimeout
    \/ TimeoutLeaveDone
    \/ SongEnds
    \/ SongFails
    \/ CallbackBegin
    \/ CallbackBookkeeping
    \/ CallbackSignal
    \/ RecordRun
    \/ \E song \in SongIds : RecordInsert(song)
    \/ \E back \in BOOLEAN : skip(back)
    \/ pause
    \/ resume
    \/ stop
    \/ LeaveBegin
    \/ LeaveDone
    \/ clear
    \/ \E position \in -1..(Len(song_queue) + 1) : Remove(position)

Spec == Init /\ [][Next]_vars

\* The loop scenario: the player has joined, looping is on and the queue holds
\* exactly song 1; songs end, sends return or fail, the song is paused and
\* resumed, and nothing else is commanded.
InitLoop ==
    /\ voice_client = "vc"
    /\ leaving = 0
    /\ player = "none"
    /\ callbacks = <<>>
    /\ cb_pc = "idle"
    /\ current_song = None
    /\ prev_songs = <<>>
    /\ push_to_prev_songs = TRUE
    /\ song_queue = <<1>>
    /\ is_looping = TRUE
    /\ play_next_song_event = FALSE
    /\ audio_player_task = "created"
    /\ record_tasks = <<>>
    /\ inserting = [s \in SongIds |-> 0]
    /\ song_plays = [s \in SongIds |-> 0]
    /\ next_id = 2
    /\ started = [s \in SongIds |-> 0]
    /\ now = 0
    /\ timestamps_started = [s \in SongIds |-> <<>>]
    /\ timestamps_stopped = [s \in SongIds |-> <<>>]
    /\ durations = [s \in SongIds |-> NoPlay]
    /\ song_requests = 1..(next_id - 1)
    /\ play_pc = <<>>
    /\ InitGuilds
    /\ connected_at = 0
    /\ wait_started = 0

NextLoop ==
    \/ TaskRun
    \/ SendDone
    \/ SendFails
    \/ EventWake
    \/ SongEnds
    \/ CallbackBegin
    \/ CallbackBookkeeping
    \/ CallbackSignal
    \/ RecordRun
    \/ \E song \in SongIds : RecordInsert(song)
    \/ pause
    \/ resume

SpecLoop == InitLoop /\ [][NextLoop]_vars

\* The replay scenario: the loop scenario with time passing, so that the plays
\* of song 1 have a length.
NextReplay ==
    \/ Tick
    \/ TaskRun
    \/ SendDone
    \/ EventWake
    \/ SongEnds
    \/ CallbackBegin
    \/ CallbackBookkeeping
    \/ CallbackSignal
    \/ RecordRun
    \/ \E song \in SongIds : RecordInsert(song)

SpecReplay == InitLoop /\ [][NextReplay]_vars

\* The timing scenario: the player has joined and song 1 is queued (looping
\* off); time passes while the song is started, paused, resumed, skipped or
\* stopped or plays to its end, and its SongPlay is recorded.
InitTiming ==
    /\ voice_client = "vc"
    /\ leaving = 0
    /\ player = "none"
    /\ callbacks = <<>>
    /\ cb_pc = "idle"
    /\ current_song = None
    /\ prev_songs = <<>>
    /\ push_to_prev_songs = TRUE
    /\ song_queue = <<1>>
    /\ is_looping = FALSE
    /\ play_next_song_event = FALSE
    /\ audio_player_task = "created"
    /\ record_tasks = <<>>
    /\ inserting = [s \in SongIds |-> 0]
    /\ song_plays = [s \in SongIds |-> 0]
    /\ next_id = 2
    /\ started = [s \in SongIds |-> 0]
    /\ now = 0
    /\ timestamps_started = [s \in SongIds |-> <<>>]
    /\ timestamps_stopped = [s \in SongIds |-> <<>>]
    /\ durations = [s \in SongIds |-> NoPlay]
    /\ song_requests = 1..(next_id - 1)
    /\ play_pc = <<>>
    /\ InitGuilds
    /\ connected_at = 0
    /\ wait_started = 0

NextTiming ==
    \/ Tick
    \/ TaskRun
    \/ SendDone
    \/ EventWake
    \/ SongEnds
    \/ CallbackBegin
    \/ CallbackBookkeeping
    \/ CallbackSignal
    \/ RecordRun
    \/ \E song \in SongIds : RecordInsert(song)
    \/ skip(FALSE)
    \/ pause
    \/ resume
    \/ stop

SpecTiming == InitTiming /\ [][NextTiming]_vars

\* The idle scenario: the player has just joined with an empty queue and the
\* control loop goes to wait for a song; time passes, the wait times out, and a
\* play command may put a song in the queue at any moment before or after.
InitIdle ==
    /\ voice_client = "vc"
    /\ leaving = 0
    /\ player = "none"
    /\ callbacks = <<>>
    /\ cb_pc = "idle"
    /\ current_song = None
    /\ prev_songs = <<>>
    /\ push_to_prev_songs = TRUE
    /\ song_queue = <<>>
    /\ is_looping = FALSE
    /\ play_next_song_event = FALSE
    /\ audio_player_task = "created"
    /\ record_tasks = <<>>
    /\ inserting = [s \in SongIds |-> 0]
    /\ song_plays = [s \in SongIds |-> 0]
    /\ next_id = 1
    /\ started = [s \in SongIds |-> 0]
    /\ now = 0
    /\ timestamps_started = [s \in SongIds |-> <<>>]
    /\ timestamps_stopped = [s \in SongIds |-> <<>>]
    /\ durations = [s \in SongIds |-> NoPlay]
    /\ song_requests = 1..(next_id - 1)
    /\ play_pc = <<>>
    /\ InitGuilds
    /\ connected_at = 0
    /\ wait_started = 0

NextIdle ==
    \/ TaskRun
    \/ IdleTick
    \/ TimedOut
    \/ TimeoutLeaveDone
    \/ \E play_next \in BOOLEAN : Enqueue(play_next)
    \/ PollWake
    \/ SendDone
    \/ EventWake
    \/ SongEnds
    \/ CallbackBegin
    \/ CallbackBookkeeping
    \/ CallbackSignal
    \/ RecordRun
    \/ \E song \in SongIds : RecordInsert(song)
    \/ flip_is_looping

\* The re-join scenario: the idle scenario with leave requests (the voice state
\* listener keeps the AudioPlayer) and join commands.
NextRejoin ==
    \/ TaskRun
    \/ IdleTick
    \/ TimedOut
    \/ TimeoutLeaveDone
    \/ LeaveBegin
    \/ LeaveDone
    \/ Join
    \/ \E play_next \in BOOLEAN : Enqueue(play_next)
    \/ PollWake
    \/ SendDone
    \/ EventWake
    \/ SongEnds
    \/ CallbackBegin
    \/ CallbackBookkeeping
    \/ CallbackSignal
    \/ RecordRun
    \/ \E song \in SongIds : RecordInsert(song)

SpecRejoin == InitIdle /\ [][NextRejoin]_vars

\* The request scenario: the player has joined with an empty queue; play
\* commands create songs, insert their SongRequest and queue them step by step
\* while the control loop plays and records what is queued.
NextRequest ==
    \/ PlayBegin
    \/ PlayInserted
    \/ PlayInsertFails
    \/ \E play_next \in BOOLEAN : PlayAdd(play_next)
    \/ TaskRun
    \/ PollWake
    \/ SendDone
    \/ EventWake
    \/ SongEnds
    \/ CallbackBegin
    \/ CallbackBookkeeping
    \/ CallbackSignal
    \/ RecordRun
    \/ \E song \in SongIds : RecordInsert(song)
    \/ flip_is_looping
    \/ skip(FALSE)
    \/ \E song \in SongIds : RecordInsertFails(song)

SpecRequest == InitIdle /\ [][NextRequest]_vars

\* The guilds scenario: three play commands, of two guilds and three users,
\* run their _play concurrently; the audio players stay as constructed.
NextGuilds ==
    \/ \E c \in Ctxs : PlaySetCtx(c)
    \/ \E c \in Ctxs : PlaySongCreated(c)
    \/ \E c \in Ctxs : PlayQueued(c)

SpecGuilds == Init /\ [][NextGuilds]_vars

\* The event loop runs the task when it can, time passes, and a timer that is
\* due fires.
SpecIdle ==
    /\ InitIdle
    /\ [][NextIdle]_vars
    /\ WF_vars(TaskRun)
    /\ WF_vars(IdleTick)
    /\ WF_vars(TimedOut)
    /\ WF_vars(TimeoutLeaveDone)

\* ================================================================ claims
Range(seq) == {seq[i] : i \in 1..Len(seq)}

\* A song handed to voice_client.play whose completion is not processed yet: it
\* plays or is paused, or its "after" call is owed or running.
CompletionPending == player # "none" \/ callbacks # <<>>

\* A step of the play_next_song callback (the player thread).
CallbackStep ==
    \/ cb_pc' # cb_pc
    \/ (cb_pc = "idle" /\ callbacks # <<>> /\ callbacks' = Tail(callbacks))

\* C1: while the completion of the song started last is not processed, the
\* control loop assigns no new current_song and issues no voice_client.play.
C1_OneCurrentAtATime ==
    [][CompletionPending =>
          /\ current_song' \in {current_song, None}
          /\ started' = started]_vars

C3_LoopSurvivesFailure ==
    ~(audio_player_task = "done" /\ voice_client # "None")

\* C4: the callback on the player thread writes neither current_song nor
\* prev_songs nor the queue.
C4_CallbackWritesNothing ==
    [][CallbackStep =>
          /\ current_song' = current_song
          /\ prev_songs' = prev_songs
          /\ push_to_prev_songs' = push_to_prev_songs
          /\ song_queue' = song_queue]_vars

\* C5: current_song is not None if and only if the voice client is playing or
\* paused.
C5_CurrentIffPlaying ==
    (current_song # None) <=> (player \in {"playing", "paused"})

\* q keeps its songs in the order they have in r (q is r with songs left out).
RECURSIVE IsSubSeq(_, _)
IsSubSeq(q, r) ==
    IF q = <<>> THEN TRUE
    ELSE IF r = <<>> THEN FALSE
    ELSE IF Head(q) = Head(r) THEN IsSubSeq(Tail(q), Tail(r))
    ELSE IsSubSeq(q, Tail(r))

\* The step hands song s to voice_client.play.
Starts(s) == started'[s] = started[s] + 1

\* The step is a play command putting a new Song in the queue.
Enqueues == next_id' = next_id + 1

\* get() is run with looping on.
LoopingGet == is_looping /\ \E f \in PlayFailures : DequeueAndPlay(f)

\* C6: songs are started in queue order, and the queue is in the order of the
\* play commands, play_next ones first: the song started is the head of the
\* queue; a play command puts its song behind every queued song, a play_next
\* command ahead of every queued song; and no step but get() with looping on
\* changes the order of the songs that stay in the queue.
C6_StartedInQueueOrder ==
    [][/\ \A s \in SongIds : Starts(s) => (song_queue # <<>> /\ s = Head(song_queue))
       /\ Enqueue(FALSE) => (Front(song_queue') = song_queue /\ Last(song_queue') = next_id)
       /\ Enqueue(TRUE) => (Tail(song_queue') = song_queue /\ Head(song_queue') = next_id)
       /\ Enqueues => (Enqueue(FALSE) \/ Enqueue(TRUE))
       /\ ~LoopingGet =>
              (IsSubSeq(song_queue, song_queue') \/ IsSubSeq(song_queue', song_queue))]_vars

\* A song enqueued with play_next is started ahead of the song queued before it.
C6_Witness ==
    /\ TotalStarted = 1
    /\ started[2] = 1
    /\ current_song = 2
    /\ song_queue = <<1>>
    /\ player = "playing"
    /\ ~is_looping

NoDup(seq) == \A i, j \in 1..Len(seq) : seq[i] = seq[j] => i = j

\* Each song is in the queue at most once, and the current song is not in it.
OnceAndNotCurrent ==
    /\ NoDup(song_queue)
    /\ current_song # None => current_song \notin Range(song_queue)

BetweenCompletions ==
    /\ play_next_song_event
    /\ callbacks = <<>>
    /\ audio_player_task \in {"sending", "waiting"}
    /\ started[1] = Len(prev_songs)

Idle == voice_client = "None" /\ audio_player_task = "done"

\* C11: after a join with an empty queue the player becomes idle unless a song
\* is enqueued; leave() inside the task calls disconnect() (the task goes to
\* "leaving") only when the wait has lasted inactivity_timeout, and once the
\* task is done it is never run again, so disconnect() is called once.
C11_IdleAfterTimeout ==
    /\ [][(audio_player_task' = "leaving" /\ audio_player_task # "leaving") =>
             (audio_player_task = "polling" /\ now = inactivity_timeout)]_vars
    /\ [][audio_player_task = "leaving" =>
             (audio_player_task' = "leaving" \/ Idle')]_vars
    /\ [][audio_player_task = "done" => audio_player_task' = "done"]_vars
    /\ <>(next_id > 1 \/ Idle)

\* No song was ever enqueued, the timeout passed and the player is idle.
C11_Witness ==
    /\ Idle
    /\ next_id = 1
    /\ now = inactivity_timeout
    /\ song_queue = <<>>

\* C12 as claimed: skip() returns true exactly when a song is playing, and
\* false when nothing is playing.
C12_SkipTrueIffPlaying ==
    skip_returns(FALSE) = IF player = "playing" THEN "True" ELSE "False"

\* C13 as claimed: skip(), pause(), resume() and stop() never raise; without a
\* voice client each returns false.
C13_FalseWithoutRaising ==
    /\ {skip_returns(FALSE), pause_returns, resume_returns, stop_returns}
           \subseteq {"True", "False"}
    /\ voice_client = "None" =>
           {skip_returns(FALSE), pause_returns, resume_returns, stop_returns} = {"False"}

\* C14: a pause() that returns true is called with a song playing and appends
\* one stop timestamp (the time of the call) to current_song; a resume() that
\* returns true is called with the song paused and appends one start timestamp;
\* a call that does not return true leaves all timestamps as they are.
C14_PauseResumeStamps ==
    [][/\ pause =>
            IF pause_returns = "True"
            THEN /\ player = "playing" /\ player' = "paused"
                 /\ current_song # None
                 /\ timestamps_stopped' =
                        [timestamps_stopped EXCEPT ![current_song] = Append(@, now)]
                 /\ timestamps_started' = timestamps_started
            ELSE /\ timestamps_stopped' = timestamps_stopped
                 /\ timestamps_started' = timestamps_started
       /\ resume =>
            IF resume_returns = "True"
            THEN /\ player = "paused" /\ player' = "playing"
                 /\ current_song # None
                 /\ timestamps_started' =
                        [timestamps_started EXCEPT ![current_song] = Append(@, now)]
                 /\ timestamps_stopped' = timestamps_stopped
            ELSE /\ timestamps_stopped' = timestamps_stopped
                 /\ timestamps_started' = timestamps_started]_vars

\* Song 1 was started, paused and resumed.
C14_Witness ==
    /\ current_song = 1
    /\ player = "playing"
    /\ Len(timestamps_started[1]) = 2
    /\ Len(timestamps_stopped[1]) = 1

\* C15 as claimed: on a connected player stop() returns true exactly when there
\* is something to stop, a current song or queued songs.
C15_StopTrueIffAnything ==
    voice_client # "None" =>
        ((stop_returns = "True") <=> (current_song # None \/ song_queue # <<>>))

\* C16 as claimed: leave() on a connected player returns true and its stop()
\* leaves the queue empty; without a voice client it returns false.
C16_LeaveClearsQueue ==
    /\ [](leave_returns = IF voice_client # "None" THEN "True" ELSE "False")
    /\ [][leaving' = leaving + 1 => song_queue' = <<>>]_vars

\* C17 as claimed: the wait for a song never times out with a song in the
\* queue, so an enqueued song is not left behind by a player that leaves for
\* inactivity.
C17_TimeoutOnlyOnEmptyQueue ==
    [][PollTimeout => song_queue = <<>>]_vars

\* A play_next_song call begins: the "after" call at the head of callbacks is
\* taken up.
CallbackBeginStep ==
    /\ cb_pc = "idle"
    /\ callbacks # <<>>
    /\ (cb_pc' = "scheduled" \/ callbacks' = Tail(callbacks))

\* A record_song_play_to_db coroutine runs.
RecordRunStep == record_tasks # <<>> /\ record_tasks' = Tail(record_tasks)

\* C19 as claimed: every retirement of a current song (each "after" call,
\* whatever ended the song) schedules one SongPlay recording of that song,
\* every recording creates one SongPlay, and no SongPlay is created otherwise.
C19_OneSongPlayPerRetirement ==
    [][/\ CallbackBeginStep =>
             (current_song # None /\ record_tasks' = Append(record_tasks, current_song))
       /\ RecordRunStep =>
             (/\ Head(record_tasks) # None
              /\ inserting' = [inserting EXCEPT ![Head(record_tasks)] = @ + 1])
       /\ inserting' # inserting /\ song_plays' = song_plays => RecordRunStep
       /\ Len(record_tasks') > Len(record_tasks) => CallbackBeginStep]_vars

\* C20: when song 1 was started at t0, paused at t1, resumed at t2 and its
\* retirement recorded the stop t3, the duration of its SongPlay is
\* (t1 - t0) + (t3 - t2).
C20_DurationExcludesPause ==
    (/\ durations[1] # NoPlay
     /\ Len(timestamps_started[1]) = 2
     /\ Len(timestamps_stopped[1]) = 2) =>
        durations[1] = (timestamps_stopped[1][1] - timestamps_started[1][1])
                       + (timestamps_stopped[1][2] - timestamps_started[1][2])

\* Started at 0, paused at 1, resumed at 2, stopped at 3: two ticks played.
C20_Witness ==
    /\ timestamps_started[1] = <<0, 2>>
    /\ timestamps_stopped[1] = <<1, 3>>
    /\ durations[1] = 2
    /\ song_plays[1] = 1

\* C18: a song that is in the queue, is current, was started, or has a SongPlay
\* scheduled, under way or inserted has its SongRequest row in the database.
C18_RequestBeforePlay ==
    \A s \in SongIds :
        (\/ s \in Range(song_queue)
         \/ current_song = s
         \/ started[s] > 0
         \/ s \in Range(record_tasks)
         \/ inserting[s] > 0
         \/ song_plays[s] > 0) => s \in song_requests

\* Song 1 has its SongRequest and a SongPlay, while the play command of song 2
\* still waits for its insert.
C18_Witness ==
    /\ 1 \in song_requests
    /\ song_plays[1] = 1
    /\ play_pc = <<2, "inserting">>
    /\ 2 \notin song_requests

\* C21 as claimed: a stats query run in any state counts each play once: for a
\* song that was started, "Plays" of the query for that song is the number of
\* its plays, the live current song being added exactly while the play has no
\* SongPlay row.
C21_EachPlayCountedOnce ==
    \A s \in SongIds :
        started[s] > 0 =>
            get_num_songs_played([requester_id |-> None, song_id |-> id[s]]) = started[s]

\* C22 as claimed: the live current song is merged only when it passes the
\* whole filter of the query, requester included.
C22_MergedOnlyIfFilterMatches ==
    \A filter_kwargs \in Filters :
        is_current_song_relevant(filter_kwargs) => filter_by(current_song, filter_kwargs)

\* A play command ends: _play returns or an exception leaves it.
PlayEnds == play_pc # <<>> /\ play_pc' = <<>>

\* A SongPlay insert fails: an insert under way ends with no row.
SongPlayInsertFails == \E s \in SongIds : inserting'[s] < inserting[s] /\ song_plays' = song_plays

\* C23 as claimed: a failing SongPlay insert changes nothing of the player, the
\* queue and the control loop, and every play command that ends, its
\* SongRequest insert failed or not, has put its song in the queue.
C23_InsertFailureKeepsPlayback ==
    [][/\ SongPlayInsertFails =>
             UNCHANGED <<voice_client, player, callbacks, cb_pc, current_song, song_queue,
                         play_next_song_event, audio_player_task, record_tasks>>
       /\ PlayEnds => play_pc[1] \in Range(song_queue')]_vars

\* Display positions tried on the queue.
Positions == -1..(MaxQueue + 1)

SongSeqs == UNION {[1..n -> SongIds] : n \in 0..MaxSongs}

\* C25 as claimed: with no maximum configured neither put_nowait nor
\* extend_nowait raises QueueFull, whatever the queue holds, and extend_nowait
\* adds the whole sequence.
C25_NoQueueFullWithoutMaximum ==
    /\ ~put_nowait_raises(song_queue)
    /\ \A songs \in SongSeqs :
          /\ ~extend_nowait_raises(song_queue, songs)
          /\ extend_nowait(song_queue, songs, FALSE) = song_queue \o songs

\* C26 as claimed: every song in the queue of guild g was built with the
\* context of the command that queued it (its guild is g, its requester and
\* channel are the command's), every SongRequest row has the guild and the
\* requester of its command, and a command changes no queue but its guild's.
C26_SongCarriesItsCommand ==
    /\ \A g \in Guilds : \A i \in 1..Len(audio_players[g]) :
          LET song == audio_players[g][i]
          IN /\ guild[song.cmd] = g
             /\ guild[song.ctx] = g
             /\ author[song.ctx] = author[song.cmd]
             /\ channel[song.ctx] = channel[song.cmd]
    /\ \A row \in song_request_rows :
          /\ row.guild_id = guild[row.cmd]
          /\ row.requester_id = author[row.cmd]

\* The AudioPlayer has no play_audio task that runs: none was created, or the
\* one created last is done.
NoTaskRunning == audio_player_task \in {"None", "done"}

\* C27: join creates the play_audio task exactly when no task is running, and
\* nothing else creates one, so a task is never created while another one
\* runs: the AudioPlayer has at most one active play_audio task.
C27_OneControlLoop ==
    [][/\ Join => audio_player_task' = IF NoTaskRunning THEN "created" ELSE audio_player_task
       /\ (audio_player_task' = "created" /\ audio_player_task # "created") =>
              (NoTaskRunning /\ voice_client' = "vc")]_vars

\* A task played song 1 and ended, and a later join created the next task.
C27_Witness ==
    /\ audio_player_task = "created"
    /\ voice_client = "vc"
    /\ song_plays[1] = 1

\* A step of skip(), stop() or leave() (called by a command, a listener or the
\* control loop on its timeout).
StopRequestStep ==
    \/ \E back \in BOOLEAN : skip(back)
    \/ stop
    \/ LeaveBegin
    \/ LeaveDone
    \/ PollTimeout
    \/ TimeoutLeaveDone

\* C28: skip(), stop() and leave() stop the voice client's player and leave
\* current_song, the song's timestamps and the SongPlay recordings as they
\* are; current_song is cleared by the play_next_song callback only, a SongPlay
\* recording is scheduled by that callback only, and the stop timestamp of a
\* retirement is recorded by that recording only (the other stop timestamps
\* are those of pause()).
C28_RetirementInCallbackOnly ==
    [][/\ StopRequestStep =>
             /\ current_song' = current_song
             /\ timestamps_started' = timestamps_started
             /\ timestamps_stopped' = timestamps_stopped
             /\ record_tasks' = record_tasks
             /\ inserting' = inserting /\ song_plays' = song_plays
             /\ player' \in {player, "none"}
       /\ (current_song # None /\ current_song' = None) =>
             (cb_pc = "scheduled" /\ cb_pc' = "cleared")
       /\ Len(record_tasks') > Len(record_tasks) => (cb_pc = "idle" /\ cb_pc' = "scheduled")
       /\ timestamps_stopped' # timestamps_stopped =>
             (RecordRunStep \/ (player = "playing" /\ player' = "paused"))
       /\ (\E s \in SongIds : inserting'[s] > inserting[s]) => RecordRunStep]_vars

\* Song 1 was skipped or stopped: the player is gone and the "after" call is
\* owed, while current_song is still song 1 with no stop timestamp and no
\* recording.
C28_Witness ==
    /\ callbacks = <<"stopped">>
    /\ cb_pc = "idle"
    /\ player = "none"
    /\ current_song = 1
    /\ timestamps_stopped[1] = <<>>
    /\ record_tasks = <<>>
    /\ voice_client = "vc"

\* The callback clears current_song for a play that skip, stop or leave ended.
StoppedCompletion ==
    /\ cb_pc = "scheduled" /\ cb_pc' = "cleared"
    /\ Head(callbacks) = "stopped"

\* C29 as claimed: with looping on, when the completion of a play that was
\* skipped or stopped is processed, the song is not in the queue.
C29_SkippedSongNotRequeued ==
    [][(StoppedCompletion /\ is_looping /\ current_song # None) =>
          current_song \notin Range(song_queue')]_vars

\* C29 amended: with looping on the song is back in the queue from the moment
\* it is dequeued, whatever ends its play: skip() with no argument leaves the
\* queue as it is, so a skipped song stays queued; a stop() that acts empties
\* the queue, the song put back included; and processing a completion that a
\* skip or stop caused neither removes nor inserts a song.
C29_RequeuedWhateverEndsPlay ==
    [][/\ \A s \in SongIds : (Starts(s) /\ is_looping) => s \in Range(song_queue')
       /\ skip(FALSE) => song_queue' = song_queue
       /\ (stop /\ is_currently_playing) => song_queue' = <<>>
       /\ (CallbackStep /\ callbacks # <<>> /\ Head(callbacks) = "stopped") =>
              song_queue' = song_queue]_vars

\* With looping on song 1 was skipped, its completion is processed, and it
\* waits in the queue to be played again.
C29_Witness ==
    /\ is_looping
    /\ callbacks = <<"stopped">>
    /\ cb_pc = "cleared"
    /\ prev_songs = <<1>>
    /\ started[1] = 1
    /\ song_queue = <<1>>

\* C30 as claimed: every Song has as many stop timestamps as start timestamps,
\* or one less, so its total_time_played is defined.
C30_StampsBalanced ==
    \A s \in SongIds :
        /\ Len(timestamps_started[s]) - Len(timestamps_stopped[s]) \in {0, 1}
        /\ total_time_played(timestamps_started[s], timestamps_stopped[s]) # TypeError

\* C31 as claimed, in the replay scenario: when song 1 was played twice with no
\* pause (two start and two stop timestamps) and both plays were recorded, the
\* SongPlay created last carries the length of the second play only.
C31_SongPlayCarriesOwnPlay ==
    (/\ started[1] = 2
     /\ Len(timestamps_started[1]) = 2
     /\ Len(timestamps_stopped[1]) = 2
     /\ inserting[1] + song_plays[1] = 2) =>
        durations[1] = timestamps_stopped[1][2] - timestamps_started[1][2]

\* C32 as claimed, in the re-join scenario: the control loop disconnects for
\* inactivity (its wait times out with a voice client) only when the voice
\* connection has existed for inactivity_timeout at least.
C32_OnlyIdleConnectionTimedOut ==
    [][(/\ audio_player_task = "polling"
        /\ audio_player_task' = "leaving") =>
            now >= connected_at + inactivity_timeout]_vars

\* The disconnect() calls under way: those of the leave() calls of commands and
\* of the listener, and that of the control loop's leave() after its timeout.
\* They all act on the present voice connection, since voice_client is set to
\* None (and a new connection becomes possible) only when one of them returns.
Disconnecting == leaving + (IF audio_player_task = "leaving" THEN 1 ELSE 0)

\* C33 as claimed: disconnect() is called at most once on a voice connection,
\* whatever leave requests come together.
C33_DisconnectOncePerConnection == Disconnecting <= 1

\* C34 as claimed: with no voice client the control loop leaves the queue
\* alone: it takes no song out of it to play it.
C34_NoDequeueWhenDisconnected ==
    [][voice_client = "None" => ~(\E f \in PlayFailures : DequeueAndPlay(f))]_vars

\* stop() has returned True and no song was put in the queue since: the queue is
\* empty and the voice client plays nothing.
Stopped == song_queue = <<>> /\ player = "none"

\* C35: stop() that returns True leaves the player stopped with no song
\* started, and a stopped player stays stopped, with no song started, through
\* every step that is not a play command putting a song in the queue. (A song
\* is assigned to current_song and handed to voice_client.play in one step of
\* the control loop, with no await in between.)
C35_NoStartAfterStop ==
    [][/\ (stop /\ is_currently_playing) => (Stopped' /\ started' = started)
       /\ (Stopped /\ ~Enqueues) => (Stopped' /\ started' = started)]_vars

\* stop() has returned True while song 1 played and song 2 was queued: song 2
\* is started by no later step.
C35_Witness ==
    /\ Stopped
    /\ voice_client = "vc"
    /\ leaving = 0
    /\ current_song = 1
    /\ callbacks = <<"stopped">>
    /\ next_id = 3
    /\ started = [s \in SongIds |-> IF s = 1 THEN 1 ELSE 0]
    /\ audio_player_task = "waiting"

\* C36 as claimed: with the current song paused, skip() returns True (its
\* guard holds, so it stops the voice client and the song is retired).
C36_SkipRetiresPausedSong ==
    (voice_client = "vc" /\ player = "paused") => skip_returns(FALSE) = "True"

\* skip(back=True) acts: a song is playing and prev_songs is not empty.
SkipBackStep ==
    /\ voice_client = "vc"
    /\ player = "playing"
    /\ prev_songs # <<>>
    /\ skip(TRUE)

\* C37 as claimed: skip(back=True) while C plays and prev_songs ends with P puts
\* P, then C, at the head of the queue (they are the next two songs to be
\* started), takes P off prev_songs and lowers push_to_prev_songs; the
\* completion callback of the interrupted play is the next callback to run, and
\* a callback run with push_to_prev_songs lowered pushes nothing and raises it
\* again.
C37_SkipBackReplaysPrevious ==
    [][/\ SkipBackStep =>
              /\ SubSeq(song_queue', 1, 2) = <<Last(prev_songs), current_song>>
              /\ prev_songs' = Front(prev_songs)
              /\ ~push_to_prev_songs'
              /\ callbacks' = <<"stopped">>
       /\ (CallbackBookkeeping /\ ~push_to_prev_songs) =>
              (prev_songs' = prev_songs /\ push_to_prev_songs')]_vars

\* C38 as claimed: skip(back=True) with prev_songs empty changes neither the
\* queue, nor the current song, nor push_to_prev_songs, nor what is playing.
C38_FailedSkipBackChangesNothing ==
    [][(prev_songs = <<>> /\ skip(TRUE)) =>
           UNCHANGED <<song_queue, current_song, push_to_prev_songs, player>>]_vars

\* C39 as claimed: a playlist enqueued with play_next while the queue is not
\* being consumed ends up at the head of the queue in playlist order, ahead of
\* the songs queued earlier (and songs are started from the head of the queue).
C39_PlaylistNextInOrder ==
    \A songs \in SongSeqs : play_playlist(song_queue, songs, TRUE) = songs \o song_queue

====
